---- MODULE Spec2Model ----
(***************************************************************************)
(* JSON Blob Storage Service: the Express server of src/src/index.js, the *)
(* MongoDB collection behind its Log model, and the export script of      *)
(* src/scripts/export-all-data.js.                                        *)
(*                                                                         *)
(* Strings that the code inspects character by character (the session id  *)
(* tested by uuidRegex, the request path) are sequences of one-character  *)
(* strings.  JSON values are records [kind, prim, items].                 *)
(***************************************************************************)
EXTENDS Integers, Sequences, FiniteSets, TLC

VARIABLES
    serverPc,     \* index.js 167-177: "connecting", "listening" or "exited"
    readyState,   \* mongoose.connection.readyState of the server process
    store,        \* the documents of the logs collection, in insertion order
    now,          \* Date.now()
    nextOid,      \* the counter behind new ObjectId()
    pc,           \* per request: where its handler stands
    req,          \* per request: the request while its handler is pending
    doc,          \* per request: `log`, the document built at index.js 144
    resp,         \* per request: the response sent
    scriptPc,     \* export-all-data.js: position of exportAllData
    logs,         \* export-all-data.js 153: the array the scan returned
    jsonFile,     \* all-data-<date>.json, as written by exportAsJson
    ndjsonFile,   \* all-data-<date>.ndjson, as written by exportAsNdjson
    sessionFiles, \* by-session/<sessionId>.json, as written by exportBySession
    statistics,   \* what printStatistics printed
    exitCode,     \* exit status of the export script
    scriptError,  \* export-all-data.js 183: what the catch caught
    candidate,    \* a session id handed to the identifier check
    verdict       \* what the identifier check answered for candidate

vars == <<serverPc, readyState, store, now, nextOid, pc, req, doc, resp,
          scriptPc, logs, jsonFile, ndjsonFile, sessionFiles, statistics,
          exitCode, scriptError, candidate, verdict>>

serverVars == <<serverPc, readyState, store, now, nextOid, pc, req, doc, resp>>
scriptVars == <<scriptPc, logs, jsonFile, ndjsonFile, sessionFiles, statistics,
                exitCode, scriptError>>
checkVars  == <<candidate, verdict>>

----------------------------------------------------------------------------
(* Bounds *)

\* number of HTTP requests the server receives
MaxReq == 2
\* last value of the millisecond clock
MaxTime == 1

Reqs == 1..MaxReq

----------------------------------------------------------------------------
(* Characters and session identifiers *)

\* /i : the pattern is matched case-insensitively
ToLower(c) ==
    CASE c = "A" -> "a" [] c = "B" -> "b" [] c = "C" -> "c"
      [] c = "D" -> "d" [] c = "E" -> "e" [] c = "F" -> "f"
      [] c = "G" -> "g" [] OTHER -> c

SameCase(c) == c

HexClass == {"0", "1", "2", "3", "4", "5", "6", "7", "8", "9",
             "a", "b", "c", "d", "e", "f"}
VerClass == {"1", "2", "3", "4", "5"}
VarClass == {"8", "9", "a", "b"}
DashClass == {"-"}

\* the atoms of /^[0-9a-f]{8}-[0-9a-f]{4}-[1-5][0-9a-f]{3}-[89ab][0-9a-f]{3}-[0-9a-f]{12}$/
uuidPattern ==
    << [class |-> HexClass,  count |-> 8],
       [class |-> DashClass, count |-> 1],
       [class |-> HexClass,  count |-> 4],
       [class |-> DashClass, count |-> 1],
       [class |-> VerClass,  count |-> 1],
       [class |-> HexClass,  count |-> 3],
       [class |-> DashClass, count |-> 1],
       [class |-> VarClass,  count |-> 1],
       [class |-> HexClass,  count |-> 3],
       [class |-> DashClass, count |-> 1],
       [class |-> HexClass,  count |-> 12] >>

\* Matches atoms k.. of the pattern against s from position i on; ^ and $ anchor
\* the match to the whole of s.
RECURSIVE MatchFrom(_, _, _, _)
MatchFrom(pat, k, s, i) ==
    IF k > Len(pat) THEN i = Len(s) + 1
    ELSE LET a == pat[k]
         IN  /\ i + a.count - 1 <= Len(s)
             /\ \A j \in i..(i + a.count - 1) : ToLower(s[j]) \in a.class
             /\ MatchFrom(pat, k + 1, s, i + a.count)

RECURSIVE MatchFromCaseSensitive(_, _, _, _)
MatchFromCaseSensitive(pat, k, s, i) ==
    IF k > Len(pat) THEN i = Len(s) + 1
    ELSE LET a == pat[k]
         IN  /\ i + a.count - 1 <= Len(s)
             /\ \A j \in i..(i + a.count - 1) : SameCase(s[j]) \in a.class
             /\ MatchFromCaseSensitive(pat, k + 1, s, i + a.count)

\* the same pattern without the /i flag
uuidRegexTestNoFlag(sessionId) == MatchFromCaseSensitive(uuidPattern, 1, sessionId, 1)

\* uuidRegex.test(sessionId)
uuidRegexTest(sessionId) == MatchFrom(uuidPattern, 1, sessionId, 1)

\* 550e8400-e29b-41d4-a716-446655440000, the identifier of the README
ReadmeUuid ==
    << "5", "5", "0", "e", "8", "4", "0", "0", "-",
       "e", "2", "9", "b", "-",
       "4", "1", "d", "4", "-",
       "a", "7", "1", "6", "-",
       "4", "4", "6", "6", "5", "5", "4", "4", "0", "0", "0", "0" >>

WithChar(s, i, c) == [s EXCEPT ![i] = c]

----------------------------------------------------------------------------
(* JSON values: req.body and the Mixed field `data` *)

Undefined   == [kind |-> "undefined", prim |-> "", items |-> << >>]
Prim(p)     == [kind |-> "prim",      prim |-> p,  items |-> << >>]
Obj(items)  == [kind |-> "object",    prim |-> "", items |-> items]
Arr(items)  == [kind |-> "array",     prim |-> "", items |-> items]
Field(k, v) == [k |-> k, v |-> v]

EmptyObj  == Obj(<< >>)
\* {"event": "login"}
LoginObj  == Obj(<< Field("event", Prim("login")) >>)
\* {"meta": {}, "event": "logout"}
LogoutObj == Obj(<< Field("meta", EmptyObj), Field("event", Prim("logout")) >>)

Payloads == {LoginObj, LogoutObj}

\* The schema is built without options, so `minimize` keeps its default (true):
\* when save() turns the document into the object it sends to MongoDB, an object
\* left without keys is dropped (an array and the elements of an array are kept).
RECURSIVE clone(_, _)
clone(v, isArrayChild) ==
    IF v.kind = "object"
    THEN LET cloned == [i \in 1..Len(v.items) |->
                           Field(v.items[i].k, clone(v.items[i].v, FALSE))]
             ret    == SelectSeq(cloned, LAMBDA e : e.v # Undefined)
         IN  IF isArrayChild \/ ret # << >> THEN Obj(ret) ELSE Undefined
    ELSE IF v.kind = "array"
    THEN Arr([i \in 1..Len(v.items) |-> Field("", clone(v.items[i].v, TRUE))])
    ELSE v

\* log._id.toString() and the JSON form of an ObjectId: its hex string
ObjectIdToString(oid) == [hex |-> oid]
\* Date.prototype.toISOString and the JSON form of a Date
ToISOString(t) == [iso |-> t]

\* What save() sends to the collection for `log`
toObject(log) ==
    [_id |-> log._id, sessionId |-> log.sessionId,
     data |-> clone(log.data, FALSE), createdAt |-> log.createdAt]

NoDoc == [_id |-> 0, sessionId |-> << >>, data |-> Undefined, createdAt |-> 0]

----------------------------------------------------------------------------
(* Requests and responses *)

HealthSeg == << "h", "e", "a", "l", "t", "h" >>
ExportSeg == << "e", "x", "p", "o", "r", "t" >>

\* version nibble 1: not a v4 identifier, inside [1-5]
V1Uuid == WithChar(ReadmeUuid, 15, "1")
\* version nibble 6: outside [1-5]
V6Uuid == WithChar(ReadmeUuid, 15, "6")

\* a path is the sequence of its segments: /health is << HealthSeg >>, / is << >>
Paths == { << HealthSeg >>, << ExportSeg >>, << ReadmeUuid >>, << V1Uuid >>,
           << V6Uuid >>, << ReadmeUuid, ExportSeg >>, << >> }

Methods == {"GET", "POST", "PUT", "OPTIONS"}

\* a request without content: express.json leaves req.body = {}
NoBody    == [ok |-> TRUE, val |-> EmptyObj]
\* content that express.json cannot parse
Malformed == [ok |-> FALSE, val |-> Undefined]
Parsed(p) == [ok |-> TRUE, val |-> p]
Bodies    == {Parsed(p) : p \in Payloads} \cup {NoBody, Malformed}

SessionPaths == { << ReadmeUuid >>, << V1Uuid >> }

\* GET requests carry no content; a payload is posted to the path of a
\* session.
Requests ==
    { r \in [method : Methods, path : Paths, body : Bodies] :
        IF r.method = "POST" /\ r.path \in SessionPaths
        THEN r.body # NoBody
        ELSE /\ r.body \in {NoBody, Malformed}
             /\ r.method = "GET" => r.body = NoBody }

NoReq == [method |-> "", path |-> << >>, body |-> NoBody]

NoResp == [status |-> 0, via |-> "", health |-> "", mongo |-> "",
           id |-> ObjectIdToString(0), sessionId |-> << >>,
           createdAt |-> ToISOString(0), body |-> << >>]

Reply(status, via) == [NoResp EXCEPT !.status = status, !.via = via]

----------------------------------------------------------------------------
(* The logs collection *)

Injective(f) == \A i, j \in DOMAIN f : f[i] = f[j] => i = j

\* Log.find({}): every document, in the collection's own (insertion) order
findAll(coll) == {coll}

\* Log.find({}).sort({ createdAt: 1 }).lean(): every document, createdAt
\* ascending.  The sort key is createdAt alone, so the order of documents with
\* equal createdAt is whichever the server produces.
findSorted(coll) ==
    { [i \in 1..Len(coll) |-> coll[p[i]]] :
        p \in { q \in [1..Len(coll) -> 1..Len(coll)] :
                  /\ Injective(q)
                  /\ \A i, j \in 1..Len(coll) :
                        i < j => coll[q[i]].createdAt <= coll[q[j]].createdAt } }

\* an upsert keyed by sessionId: the session's document is replaced
insertOneUpsert(coll, d) ==
    IF \E i \in 1..Len(coll) : coll[i].sessionId = d.sessionId
    THEN [i \in 1..Len(coll) |->
             IF coll[i].sessionId = d.sessionId THEN d ELSE coll[i]]
    ELSE Append(coll, d)

\* insertOne replacing what is there instead of adding to it
insertOneReplacing(coll, d) == << d >>

\* insertOne: the document is added to the collection
insertOne(coll, d) == Append(coll, d)

----------------------------------------------------------------------------
(* Server start, index.js 167-177 *)

ConnectOk ==
    /\ serverPc = "connecting"
    /\ serverPc' = "listening"
    /\ readyState' = 1
    /\ UNCHANGED <<store, now, nextOid, pc, req, doc, resp>>
    /\ UNCHANGED <<scriptVars, checkVars>>

\* a server that listens whether or not the connect succeeded
ConnectFailListens ==
    /\ serverPc = "connecting"
    /\ serverPc' = "listening"
    /\ readyState' = 0
    /\ UNCHANGED <<store, now, nextOid, pc, req, doc, resp>>
    /\ UNCHANGED <<scriptVars, checkVars>>

\* index.js 174-177: the connect fails and the process exits
ConnectFail ==
    /\ serverPc = "connecting"
    /\ serverPc' = "exited"
    /\ readyState' = 0
    /\ UNCHANGED <<store, now, nextOid, pc, req, doc, resp>>
    /\ UNCHANGED <<scriptVars, checkVars>>

\* index.js 176: process.exit(1) is the only exit of the server
serverExitCode == IF serverPc = "exited" THEN 1 ELSE -1

\* the connection to MongoDB is lost, and comes back
Disconnect ==
    /\ serverPc = "listening"
    /\ readyState = 1
    /\ readyState' = 0
    /\ UNCHANGED <<serverPc, store, now, nextOid, pc, req, doc, resp>>
    /\ UNCHANGED <<scriptVars, checkVars>>

Reconnect ==
    /\ serverPc = "listening"
    /\ readyState = 0
    /\ readyState' = 1
    /\ UNCHANGED <<serverPc, store, now, nextOid, pc, req, doc, resp>>
    /\ UNCHANGED <<scriptVars, checkVars>>

----------------------------------------------------------------------------
(* Request handling, index.js 17-161 *)

\* A request reaches the server.  Requests are numbered in their order of
\* arrival, and the synchronous part of the middleware chain runs for one
\* request at a time.
Arrive(h, requests) ==
    /\ serverPc = "listening"
    /\ pc[h] = "new"
    /\ \A g \in Reqs : g < h => pc[g] # "new"
    /\ \A g \in Reqs : pc[g] # "received"
    /\ \E r \in requests : req' = [req EXCEPT ![h] = r]
    /\ pc' = [pc EXCEPT ![h] = "received"]
    /\ UNCHANGED <<serverPc, readyState, store, now, nextOid, doc, resp>>
    /\ UNCHANGED <<scriptVars, checkVars>>

\* the response is sent and the request is over
Respond(h, r) ==
    /\ resp' = [resp EXCEPT ![h] = r]
    /\ pc' = [pc EXCEPT ![h] = "done"]
    /\ req' = [req EXCEPT ![h] = NoReq]

\* a CORS middleware that passes every request on
corsPreflightNever(r) == FALSE

\* index.js 24: the CORS middleware answers a preflight request itself
corsPreflight(r) == r.method = "OPTIONS"

\* index.js 32: express.json passes a body it can parse
jsonParsed(r) == r.body.ok

\* a health check that does not look at the connection
isDbConnectedAlways(dbState) == TRUE

\* index.js 43
isDbConnected(dbState) == dbState = 1

\* index.js 45-49
healthReply(dbState) ==
    [Reply(IF isDbConnected(dbState) THEN 200 ELSE 503, "health") EXCEPT
        !.health = IF isDbConnected(dbState) THEN "healthy" ELSE "unhealthy",
        !.mongo  = IF isDbConnected(dbState) THEN "connected" ELSE "disconnected"]

\* a gate that lets every method through
methodRejectedNever(r) == FALSE

\* index.js 115-123: app.all('*') answers 405 itself
methodRejected(r) ==
    /\ r.path # << HealthSeg >>
    /\ r.path # << ExportSeg >>
    /\ r.method # "POST"

\* index.js 134: the route /:sessionId matches a path of one segment
postRouteMatches(r) == r.method = "POST" /\ Len(r.path) = 1

\* A millisecond passes.  The server reads the clock only when the handler of
\* POST /:sessionId builds a document, so the clock is advanced while such a
\* request waits to be routed.
Tick ==
    /\ now < MaxTime
    /\ \E h \in Reqs : pc[h] = "received" /\ postRouteMatches(req[h])
    /\ now' = now + 1
    /\ UNCHANGED <<serverPc, readyState, store, nextOid, pc, req, doc, resp>>
    /\ UNCHANGED <<scriptVars, checkVars>>

\* index.js 139-142: "400" when the handler returns early, else "save"
postValidation(sessionId) ==
    IF ~uuidRegexTest(sessionId) THEN "400" ELSE "save"

\* index.js 144-147: new Log({ sessionId, data: req.body }); _id and the default
\* of createdAt are set as the document is built
newLog(sessionId, body) ==
    [_id |-> nextOid, sessionId |-> sessionId, data |-> body, createdAt |-> now]

\* the handler with the early return left out: an invalid id is answered 400
\* and saved all the same
PostHandlerNoReturn(h) ==
    LET sessionId == req[h].path[1]
    IN  /\ doc' = [doc EXCEPT ![h] = newLog(sessionId, req[h].body.val)]
        /\ nextOid' = nextOid + 1
        /\ pc' = [pc EXCEPT ![h] = "saving"]
        /\ resp' = [resp EXCEPT ![h] =
                      IF postValidation(sessionId) = "400"
                      THEN Reply(400, "post") ELSE resp[h]]
        /\ UNCHANGED req

\* index.js 134-149: the handler of POST /:sessionId up to `await log.save()`
PostHandler(h) ==
    LET sessionId == req[h].path[1]
    IN  IF postValidation(sessionId) = "400"
        THEN /\ Respond(h, Reply(400, "post"))
             /\ UNCHANGED <<doc, nextOid>>
        ELSE /\ doc' = [doc EXCEPT ![h] = newLog(sessionId, req[h].body.val)]
             /\ nextOid' = nextOid + 1
             /\ pc' = [pc EXCEPT ![h] = "saving"]
             /\ UNCHANGED <<req, resp>>

\* index.js 87-89: the handler of GET /export up to the await on find
ExportHandler(h) ==
    /\ pc' = [pc EXCEPT ![h] = "finding"]
    /\ UNCHANGED <<req, resp, doc, nextOid>>

\* The middleware chain in the order of its registration: CORS (17-29),
\* express.json (32), GET /health (40), GET /export (87), app.all('*') (115),
\* POST /:sessionId (134), and Express's own 404 when nothing answered.
Route(h) ==
    /\ pc[h] = "received"
    /\ LET r == req[h]
       IN  IF corsPreflight(r)
           THEN Respond(h, Reply(200, "cors")) /\ UNCHANGED <<doc, nextOid>>
           ELSE IF ~jsonParsed(r)
           THEN Respond(h, Reply(400, "json")) /\ UNCHANGED <<doc, nextOid>>
           ELSE IF r.method = "GET" /\ r.path = << HealthSeg >>
           THEN Respond(h, healthReply(readyState)) /\ UNCHANGED <<doc, nextOid>>
           ELSE IF r.method = "GET" /\ r.path = << ExportSeg >>
           THEN ExportHandler(h)
           ELSE IF methodRejected(r)
           THEN Respond(h, Reply(405, "gate")) /\ UNCHANGED <<doc, nextOid>>
           ELSE IF postRouteMatches(r)
           THEN PostHandler(h)
           ELSE Respond(h, Reply(404, "final")) /\ UNCHANGED <<doc, nextOid>>
    /\ UNCHANGED <<serverPc, readyState, store, now>>
    /\ UNCHANGED <<scriptVars, checkVars>>

\* MongoDB applies the insert that log.save() sent; _id is unique in the
\* collection
DbInsert(h) ==
    /\ pc[h] = "saving"
    /\ readyState = 1
    /\ \A i \in 1..Len(store) : store[i]._id # doc[h]._id
    /\ store' = insertOne(store, toObject(doc[h]))
    /\ pc' = [pc EXCEPT ![h] = "saved"]
    /\ UNCHANGED <<serverPc, readyState, now, nextOid, req, doc, resp>>
    /\ UNCHANGED <<scriptVars, checkVars>>

\* index.js 151-156
PostResolve(h) ==
    /\ pc[h] = "saved"
    /\ Respond(h, [Reply(201, "post") EXCEPT
                      !.id = ObjectIdToString(doc[h]._id),
                      !.sessionId = doc[h].sessionId,
                      !.createdAt = ToISOString(doc[h].createdAt)])
    /\ UNCHANGED <<serverPc, readyState, store, now, nextOid, doc>>
    /\ UNCHANGED <<scriptVars, checkVars>>

\* index.js 149, 157-160: log.save() throws and the handler answers 500
PostCatch(h) ==
    /\ pc[h] = "saving"
    /\ Respond(h, Reply(500, "post"))
    /\ doc' = [doc EXCEPT ![h] = NoDoc]
    /\ UNCHANGED <<serverPc, readyState, store, now, nextOid>>
    /\ UNCHANGED <<scriptVars, checkVars>>

\* index.js 91-96, exportAsJson 63-68
projectLog(log) ==
    [id |-> ObjectIdToString(log._id), sessionId |-> log.sessionId,
     data |-> log.data, createdAt |-> ToISOString(log.createdAt)]

mapLogs(ls) == [i \in 1..Len(ls) |-> projectLog(ls[i])]

\* the scan of the collection without .sort({ createdAt: 1 })
scanAllUnsorted(coll) == findAll(coll)

\* index.js 89 and export-all-data.js 153
scanAll(coll) == findSorted(coll)

\* index.js 89-103: the find resolves and the array is sent
ExportResolve(h) ==
    /\ pc[h] = "finding"
    /\ readyState = 1
    /\ \E ls \in scanAll(store) :
          Respond(h, [Reply(200, "export") EXCEPT !.body = mapLogs(ls)])
    /\ UNCHANGED <<serverPc, readyState, store, now, nextOid, doc>>
    /\ UNCHANGED <<scriptVars, checkVars>>

\* a catch that sends what the collection holds along with the 500
ExportCatchWithBody(h) ==
    /\ pc[h] = "finding"
    /\ Respond(h, [Reply(500, "export") EXCEPT !.body = mapLogs(store)])
    /\ UNCHANGED <<serverPc, readyState, store, now, nextOid, doc>>
    /\ UNCHANGED <<scriptVars, checkVars>>

\* index.js 104-107
ExportCatch(h) ==
    /\ pc[h] = "finding"
    /\ Respond(h, Reply(500, "export"))
    /\ UNCHANGED <<serverPc, readyState, store, now, nextOid, doc>>
    /\ UNCHANGED <<scriptVars, checkVars>>

----------------------------------------------------------------------------
(* The export script, export-all-data.js *)

NoFile == [written |-> FALSE, content |-> << >>]
File(content) == [written |-> TRUE, content |-> content]

NoStatistics == [printed |-> FALSE, totalRecords |-> 0, uniqueSessions |-> 0,
                 dateRange |-> << >>]

\* an export that writes the newest record first
exportAsJsonNewestFirst(ls) ==
    File([i \in 1..Len(ls) |-> projectLog(ls[Len(ls) + 1 - i])])

\* exportAsJson 62-72: the content of all-data-<date>.json
exportAsJson(ls) == File(mapLogs(ls))

\* an NDJSON export of a scan of its own, taken before the last insert
exportAsNdjsonOwnScan(ls) ==
    File([i \in 1..(Len(ls) - 1) |-> [line |-> projectLog(ls[i])]])

\* exportAsNdjson 79-89: one JSON.stringify line per log
exportAsNdjson(ls) == File([i \in 1..Len(ls) |-> [line |-> projectLog(ls[i])]])

\* exportBySession 106-110: what is pushed for a log
sessionEntry(log) ==
    [id |-> ObjectIdToString(log._id), data |-> log.data,
     createdAt |-> ToISOString(log.createdAt)]

\* a grouping that starts the session's array anew for every log
addToGroupFresh(groups, log) ==
    IF \E k \in 1..Len(groups) : groups[k].sessionId = log.sessionId
    THEN [k \in 1..Len(groups) |->
            IF groups[k].sessionId = log.sessionId
            THEN [groups[k] EXCEPT !.entries = << sessionEntry(log) >>]
            ELSE groups[k]]
    ELSE Append(groups, [sessionId |-> log.sessionId,
                         entries |-> << sessionEntry(log) >>])

\* exportBySession 103-110: sessionGroups after one more log; the keys of
\* sessionGroups are kept in the order of their creation
addToGroup(groups, log) ==
    IF \E k \in 1..Len(groups) : groups[k].sessionId = log.sessionId
    THEN [k \in 1..Len(groups) |->
            IF groups[k].sessionId = log.sessionId
            THEN [groups[k] EXCEPT !.entries = Append(@, sessionEntry(log))]
            ELSE groups[k]]
    ELSE Append(groups, [sessionId |-> log.sessionId,
                         entries |-> << sessionEntry(log) >>])

\* exportBySession 100-111: logs.forEach from log i on
RECURSIVE sessionGroupsFrom(_, _, _)
sessionGroupsFrom(ls, i, groups) ==
    IF i > Len(ls) THEN groups
    ELSE sessionGroupsFrom(ls, i + 1, addToGroup(groups, ls[i]))

\* exportBySession 113-116: one file <sessionId>.json per key of sessionGroups
exportBySession(ls) ==
    LET sessionGroups == sessionGroupsFrom(ls, 1, << >>)
    IN  [k \in 1..Len(sessionGroups) |->
            [name |-> sessionGroups[k].sessionId,
             content |-> sessionGroups[k].entries]]

\* a reduce whose callback always keeps its second argument
reduceLogsKeepLast(ls, i, a, older) == ls[Len(ls)]

\* printStatistics 135-136: logs.reduce(...) from log i on
RECURSIVE reduceLogs(_, _, _, _)
reduceLogs(ls, i, a, older) ==
    IF i > Len(ls) THEN a
    ELSE LET b == ls[i]
             keepA == IF older THEN a.createdAt < b.createdAt
                               ELSE a.createdAt > b.createdAt
         IN  reduceLogs(ls, i + 1, IF keepA THEN a ELSE b, older)

\* printStatistics 125-140
printStatistics(ls) ==
    [printed |-> TRUE,
     totalRecords |-> Len(ls),
     uniqueSessions |-> Cardinality({ls[i].sessionId : i \in 1..Len(ls)}),
     dateRange |-> IF Len(ls) > 0
                   THEN << ToISOString(reduceLogs(ls, 2, ls[1], TRUE).createdAt),
                           ToISOString(reduceLogs(ls, 2, ls[1], FALSE).createdAt) >>
                   ELSE << >>]

\* export-all-data.js 149: mongoose.connect resolves
ScriptConnectOk ==
    /\ scriptPc = "start"
    /\ scriptPc' = "connected"
    /\ UNCHANGED <<logs, jsonFile, ndjsonFile, sessionFiles, statistics, exitCode,
                   scriptError>>
    /\ UNCHANGED <<serverVars, checkVars>>

\* export-all-data.js 149, 183-186: mongoose.connect throws
ScriptConnectFail ==
    /\ scriptPc = "start"
    /\ scriptPc' = "exited"
    /\ exitCode' = 1
    /\ scriptError' = "connect"
    /\ UNCHANGED <<logs, jsonFile, ndjsonFile, sessionFiles, statistics>>
    /\ UNCHANGED <<serverVars, checkVars>>

\* export-all-data.js 153-182: the scan resolves.  With no log the function
\* closes the connection and returns, and the process ends with status 0; else
\* the statistics and the three exports follow, all synchronous, then the
\* connection is closed and the process exits with status 0.
ScriptExport ==
    /\ scriptPc = "connected"
    /\ \E ls \in scanAll(store) :
          /\ logs' = ls
          /\ IF Len(ls) = 0
             THEN UNCHANGED <<jsonFile, ndjsonFile, sessionFiles, statistics>>
             ELSE /\ statistics' = printStatistics(ls)
                  /\ jsonFile' = exportAsJson(ls)
                  /\ ndjsonFile' = exportAsNdjson(ls)
                  /\ sessionFiles' = exportBySession(ls)
    /\ scriptPc' = "exited"
    /\ exitCode' = 0
    /\ UNCHANGED <<scriptError, serverVars, checkVars>>

\* a catch that ends the process with status 0
ScriptFetchFailSilent ==
    /\ scriptPc = "connected"
    /\ scriptPc' = "exited"
    /\ exitCode' = 0
    /\ scriptError' = "find"
    /\ UNCHANGED <<logs, jsonFile, ndjsonFile, sessionFiles, statistics>>
    /\ UNCHANGED <<serverVars, checkVars>>

\* export-all-data.js 153, 183-186: the scan throws
ScriptFetchFail ==
    /\ scriptPc = "connected"
    /\ scriptPc' = "exited"
    /\ exitCode' = 1
    /\ scriptError' = "find"
    /\ UNCHANGED <<logs, jsonFile, ndjsonFile, sessionFiles, statistics>>
    /\ UNCHANGED <<serverVars, checkVars>>

----------------------------------------------------------------------------
(* The specification of the server and the script *)

InitServer(stores) ==
    /\ serverPc = "connecting"
    /\ readyState = 2
    /\ store \in stores
    /\ now = 0
    /\ nextOid = Len(store) + 1
    /\ pc = [h \in Reqs |-> "new"]
    /\ req = [h \in Reqs |-> NoReq]
    /\ doc = [h \in Reqs |-> NoDoc]
    /\ resp = [h \in Reqs |-> NoResp]

InitScript ==
    /\ scriptPc = "start"
    /\ logs = << >>
    /\ jsonFile = NoFile
    /\ ndjsonFile = NoFile
    /\ sessionFiles = << >>
    /\ statistics = NoStatistics
    /\ exitCode = -1
    /\ scriptError = ""

Init ==
    /\ InitServer({ << >> })
    /\ InitScript
    /\ candidate = << >>
    /\ verdict = "pending"

\* the server of index.js
NextServer ==
    \/ ConnectOk
    \/ ConnectFail
    \/ Disconnect
    \/ Reconnect
    \/ Tick
    \/ \E h \in Reqs : Arrive(h, Requests)
    \/ \E h \in Reqs : Route(h)
    \/ \E h \in Reqs : DbInsert(h)
    \/ \E h \in Reqs : PostResolve(h)
    \/ \E h \in Reqs : PostCatch(h)
    \/ \E h \in Reqs : ExportResolve(h)
    \/ \E h \in Reqs : ExportCatch(h)

Spec == Init /\ [][NextServer]_vars

\* the requests that read or write the collection, and the health check
StoreRequests ==
    { r \in Requests :
        \/ r.method = "POST" /\ r.path \in SessionPaths /\ r.body = Parsed(LoginObj)
        \/ r.method = "GET" /\ r.path \in {<< ExportSeg >>, << HealthSeg >>} }

\* the log an earlier run of the server left in the collection
SeedLog == [_id |-> 1, sessionId |-> ReadmeUuid, data |-> LoginObj, createdAt |-> 0]

SeedStores == { << >>, << SeedLog >> }

InitExport ==
    /\ InitServer(SeedStores)
    /\ InitScript
    /\ candidate = << >>
    /\ verdict = "pending"

\* the server and a run of the export script on the same collection
NextExport ==
    \/ ConnectOk
    \/ Tick
    \/ \E h \in Reqs : Arrive(h, StoreRequests)
    \/ \E h \in Reqs : Route(h)
    \/ \E h \in Reqs : DbInsert(h)
    \/ \E h \in Reqs : PostResolve(h)
    \/ \E h \in Reqs : PostCatch(h)
    \/ \E h \in Reqs : ExportResolve(h)
    \/ \E h \in Reqs : ExportCatch(h)
    \/ ScriptConnectOk
    \/ ScriptConnectFail
    \/ ScriptExport
    \/ ScriptFetchFail

SpecExport == InitExport /\ [][NextExport]_vars

\* the requests that write to the collection
WriteRequests == { r \in StoreRequests : r.method = "POST" }

\* a run of the export script while the server takes a write
NextScript ==
    \/ ConnectOk
    \/ Tick
    \/ \E h \in {1} : Arrive(h, WriteRequests)
    \/ \E h \in {1} : Route(h)
    \/ \E h \in {1} : DbInsert(h)
    \/ \E h \in {1} : PostResolve(h)
    \/ \E h \in {1} : PostCatch(h)
    \/ ScriptConnectOk
    \/ ScriptConnectFail
    \/ ScriptExport
    \/ ScriptFetchFail

\* export-all-data.js 149, 153: each of the two awaited promises settles, one
\* way or the other, and what follows an await runs to the end of the function
SpecExportFair ==
    /\ InitExport
    /\ [][NextScript]_vars
    /\ WF_vars(ScriptConnectOk \/ ScriptConnectFail)
    /\ WF_vars(ScriptExport \/ ScriptFetchFail)

----------------------------------------------------------------------------
(* The identifier check on its own *)

Alphabet == {"0", "1", "2", "4", "5", "6", "7", "8", "9", "a", "b", "c", "f",
             "A", "B", "C", "F", "g", "G", "-"}

\* the README's identifier with one character replaced, a prefix of it, it with
\* one character more, and the names of the two fixed routes
Candidates ==
    { WithChar(ReadmeUuid, i, c) : i \in 1..Len(ReadmeUuid), c \in Alphabet }
      \cup { SubSeq(ReadmeUuid, 1, n) : n \in 0..Len(ReadmeUuid) }
      \cup { Append(ReadmeUuid, c) : c \in Alphabet }
      \cup { << c >> \o ReadmeUuid : c \in Alphabet }
      \cup { HealthSeg, ExportSeg }

InitCheck ==
    /\ InitServer({ << >> })
    /\ InitScript
    /\ candidate \in Candidates
    /\ verdict = "pending"

\* index.js 136-142 for POST /<candidate>
CheckId ==
    /\ verdict = "pending"
    /\ verdict' = postValidation(candidate)
    /\ UNCHANGED <<candidate, serverVars, scriptVars>>

NextCheck == CheckId

SpecCheck == InitCheck /\ [][NextCheck]_vars

----------------------------------------------------------------------------
(* The UUID grammar, position by position *)

HexAnyCase == HexClass \cup {"A", "B", "C", "D", "E", "F"}
DashPositions == {9, 14, 19, 24}

UuidShape(s, versions) ==
    /\ Len(s) = 36
    /\ \A i \in 1..36 :
          IF i \in DashPositions THEN s[i] = "-"
          ELSE IF i = 15 THEN s[i] \in versions
          ELSE IF i = 20 THEN s[i] \in {"8", "9", "a", "b", "A", "B"}
          ELSE s[i] \in HexAnyCase

IsUuidV4(s) == UuidShape(s, {"4"})
IsUuidV1to5(s) == UuidShape(s, {"1", "2", "3", "4", "5"})

----------------------------------------------------------------------------
(* C1 *)

\* C1 as stated: the identifier check accepts s if and only if s is a UUID v4
\* (version nibble exactly 4); every other s is answered 400.
C1_AcceptsExactlyV4 ==
    verdict # "pending" =>
        /\ verdict = "save" <=> IsUuidV4(candidate)
        /\ verdict = "400" <=> ~IsUuidV4(candidate)

\* C1 amended: the identifier check accepts s if and only if s has the UUID
\* shape (8-4-4-4-12 hex digits, either case, variant nibble in 8, 9, a, b) with
\* a version nibble from 1 to 5; every other s is answered 400.
C1_AcceptsVersions1to5 ==
    verdict # "pending" =>
        /\ verdict = "save" <=> IsUuidV1to5(candidate)
        /\ verdict = "400" <=> ~IsUuidV1to5(candidate)

\* an identifier with version nibble 1 was accepted
C1_Witness == verdict = "save" /\ candidate = V1Uuid

----------------------------------------------------------------------------
(* C2 *)

RouteStep(h) == pc[h] = "received" /\ pc'[h] # "received"

StoredIdsValid ==
    /\ \A i \in 1..Len(store) : uuidRegexTest(store[i].sessionId)
    /\ \A h \in DOMAIN pc : pc[h] \in {"saving", "saved"} => uuidRegexTest(doc[h].sessionId)

\* C2: a POST /:sessionId whose identifier fails the check is answered 400 in
\* the step that routes it, and that step leaves the collection as it was and
\* starts no save; so no document of the collection, and no save under way, ever
\* has an identifier that fails the check.
C2_NoStoreOnInvalidId ==
    /\ []StoredIdsValid
    /\ [][\A h \in DOMAIN pc :
            ( /\ RouteStep(h)
              /\ req[h].method = "POST"
              /\ jsonParsed(req[h])
              /\ Len(req[h].path) = 1
              /\ ~uuidRegexTest(req[h].path[1]) )
            => /\ store' = store
               /\ doc' = doc
               /\ nextOid' = nextOid
               /\ pc'[h] = "done"
               /\ resp'[h].status = 400]_vars

\* an invalid identifier was answered 400 while another request's write was
\* applied and not yet answered
C2_Witness ==
    \E h, g \in DOMAIN pc :
        /\ resp[h].status = 400 /\ resp[h].via = "post"
        /\ pc[g] = "saved"

----------------------------------------------------------------------------
(* C3 *)

Accepted == {h \in DOMAIN pc : pc[h] = "saved" \/ resp[h].status = 201}

\* C3: the collection holds exactly one document per POST whose write the store
\* accepted, no more and no fewer, and the ids of its documents are pairwise
\* distinct, whatever the interleaving of the handlers.
C3_OneRecordPerAcceptedWrite ==
    /\ Len(store) = Cardinality(Accepted)
    /\ \A i, j \in 1..Len(store) : store[i]._id = store[j]._id => i = j

\* every request was a POST answered 201, and the second document built was
\* inserted first
C3_Witness ==
    /\ \A h \in DOMAIN pc : resp[h].status = 201
    /\ Len(store) >= 2
    /\ store[1]._id > store[2]._id

----------------------------------------------------------------------------
(* C4 *)

Matching(h, withPayload) ==
    { i \in 1..Len(store) :
        /\ store[i]._id = doc[h]._id
        /\ store[i].sessionId = req[h].path[1]
        /\ store[i].createdAt = doc[h].createdAt
        /\ withPayload => store[i].data = req[h].body.val }

Answered201(h) ==
    /\ resp[h].status = 201
    /\ \E i \in 1..Len(store) :
          /\ resp[h].id = ObjectIdToString(store[i]._id)
          /\ resp[h].sessionId = store[i].sessionId
          /\ resp[h].createdAt = ToISOString(store[i].createdAt)

PostOutcomes(withPayload) ==
    /\ Len(store) = Cardinality(Accepted)
    /\ \A h \in DOMAIN pc :
          /\ pc[h] = "saved" => Cardinality(Matching(h, withPayload)) = 1
          /\ resp[h].via = "post" /\ resp[h].status # 400 =>
                \/ Answered201(h)
                \/ resp[h].status = 500

\* C4: a POST with a valid identifier ends in one of two ways.  Either the store
\* accepted the write: then exactly one document with the posted sessionId and
\* the posted payload was added, and the answer is 201 with the id, sessionId
\* and createdAt of that document.  Or the store rejected it: then nothing was
\* added (the collection holds one document per accepted write) and the answer
\* is 500.
C4_TwoOutcomes == PostOutcomes(TRUE)

\* the same without the clause on the payload
C4_TwoOutcomesButPayload == PostOutcomes(FALSE)

----------------------------------------------------------------------------
(* C5 *)

FixedPaths == { << HealthSeg >>, << ExportSeg >> }

Untouched(h) ==
    /\ pc'[h] = "done"
    /\ store' = store
    /\ doc' = doc
    /\ nextOid' = nextOid

\* C5 as stated: every request whose method is not POST and whose path is
\* neither /health nor /export is answered 405 and does not reach the store.
C5_NonPostIs405 ==
    [][\A h \in DOMAIN pc :
         RouteStep(h) /\ req[h].method # "POST" /\ req[h].path \notin FixedPaths
         => resp'[h].status = 405 /\ Untouched(h)]_vars

OnlyPostSaves ==
    \A h \in DOMAIN pc : pc[h] \in {"saving", "saved"} => req[h].method = "POST"

\* C5 amended: no request whose method is not POST and whose path is neither
\* /health nor /export reaches the store.  It is answered 405 by the POST-only
\* gate, unless its method is OPTIONS, which the CORS middleware answers 200, or
\* its body is one the JSON body parser rejects, which is answered 400.  Only
\* POST requests start a save.
C5_NonPostNeverStored ==
    /\ []OnlyPostSaves
    /\ [][\A h \in DOMAIN pc :
            RouteStep(h) /\ req[h].method # "POST" /\ req[h].path \notin FixedPaths
            => /\ Untouched(h)
               /\ resp'[h] = IF req[h].method = "OPTIONS" THEN Reply(200, "cors")
                             ELSE IF ~req[h].body.ok THEN Reply(400, "json")
                             ELSE Reply(405, "gate")]_vars

\* the gate answered a request 405
C5_Witness == \E h \in DOMAIN pc : resp[h] = Reply(405, "gate")

----------------------------------------------------------------------------
(* C6 *)

\* C6: GET /health is answered in the step that routes it, never with 500:
\* with 200, status healthy and mongo connected when the connection is in
\* state 1 (connected), and with 503, status unhealthy and mongo disconnected
\* in every other state.
C6_HealthReflectsConnection ==
    [][\A h \in DOMAIN pc :
         RouteStep(h) /\ req[h].method = "GET" /\ req[h].path = << HealthSeg >>
         => /\ Untouched(h)
            /\ resp'[h].via = "health"
            /\ resp'[h].status \in {200, 503}
            /\ resp'[h].status = 200 <=> readyState = 1
            /\ resp'[h].status = 200 =>
                  resp'[h].health = "healthy" /\ resp'[h].mongo = "connected"
            /\ resp'[h].status = 503 =>
                  resp'[h].health = "unhealthy" /\ resp'[h].mongo = "disconnected"]_vars

\* a health check was answered 503 and another 200
C6_Witness ==
    \E h, g \in DOMAIN pc :
        /\ resp[h].via = "health" /\ resp[h].status = 503
        /\ resp[g].via = "health" /\ resp[g].status = 200

----------------------------------------------------------------------------
(* C7 *)

ExportAnswered(g) == resp[g].via = "export" /\ resp[g].status = 200

\* createdAt ascending, documents with equal createdAt in the order of their ids
InCreatedAtThenIdOrder(times, ids) ==
    \A i, j \in DOMAIN times :
        i < j => \/ times[i] < times[j]
                 \/ times[i] = times[j] /\ ids[i] < ids[j]

InCreatedAtOrder(times) ==
    \A i, j \in DOMAIN times : i < j => times[i] <= times[j]

BodyTimes(g) == [k \in 1..Len(resp[g].body) |-> resp[g].body[k].createdAt.iso]
BodyIds(g)   == [k \in 1..Len(resp[g].body) |-> resp[g].body[k].id.hex]
LogTimes     == [k \in 1..Len(logs) |-> logs[k].createdAt]
LogIds       == [k \in 1..Len(logs) |-> logs[k]._id]

\* C7 as stated: what a full scan returned (the body of GET /export, the logs
\* of the export script) is ordered by createdAt ascending, records with equal
\* createdAt in the order of their ids.
C7_TiesInIdOrder ==
    /\ \A g \in DOMAIN pc :
          ExportAnswered(g) => InCreatedAtThenIdOrder(BodyTimes(g), BodyIds(g))
    /\ InCreatedAtThenIdOrder(LogTimes, LogIds)

ScansSorted ==
    /\ \A g \in DOMAIN pc : ExportAnswered(g) => InCreatedAtOrder(BodyTimes(g))
    /\ InCreatedAtOrder(LogTimes)

\* s lists each element of t once and nothing else
ListsExactly(s, t) ==
    /\ Len(s) = Len(t)
    /\ \A i \in 1..Len(t) : \E k \in 1..Len(s) : s[k] = t[i]

\* C7 amended: what a full scan returns lists every document persisted when it
\* is taken, once each, ordered by createdAt ascending; the order of two
\* records with equal createdAt is not fixed.
C7_SortedByCreatedAt ==
    /\ []ScansSorted
    /\ [][ /\ \A g \in DOMAIN pc :
                pc[g] = "finding" /\ resp'[g].status = 200
                => ListsExactly(resp'[g].body, mapLogs(store))
           /\ scriptPc = "connected" /\ exitCode' = 0
                => ListsExactly(logs', store) ]_vars

\* GET /export returned two records with equal createdAt, the one with the
\* greater id first
C7_Witness ==
    \E g \in DOMAIN pc :
        /\ ExportAnswered(g)
        /\ Len(resp[g].body) = 2
        /\ BodyTimes(g)[1] = BodyTimes(g)[2]
        /\ BodyIds(g)[1] > BodyIds(g)[2]

----------------------------------------------------------------------------
(* C8 *)

\* C8: no step of the server or of the export script removes or changes a
\* document of the collection: each document is still there afterwards with
\* its _id, sessionId, data and createdAt, and the number of documents never
\* decreases.
C8_AppendOnly ==
    [][ /\ Len(store') >= Len(store)
        /\ \A i \in 1..Len(store) :
              \E k \in 1..Len(store') : store'[k] = store[i] ]_vars

\* the collection grew to three documents, around an export by the script and
\* an answered request
C8_Witness ==
    /\ Len(store) = 3
    /\ exitCode = 0
    /\ jsonFile.written
    /\ \E h \in DOMAIN pc : resp[h].status = 201

----------------------------------------------------------------------------
(* C9 *)

\* C9: once a POST with payload P is answered 201, every full scan taken by
\* GET /export returns a record with the id of the answer, whose data equals P
\* and whose sessionId is the one posted.  (`log` keeps what was posted:
\* doc[h].data is req.body.)
C9_RoundTrip ==
    [][\A g \in DOMAIN pc :
         pc[g] = "finding" /\ resp'[g].status = 200
         => \A h \in DOMAIN pc :
               resp[h].status = 201
               => \E k \in 1..Len(resp'[g].body) :
                     /\ resp'[g].body[k].id = resp[h].id
                     /\ resp'[g].body[k].sessionId = doc[h].sessionId
                     /\ resp'[g].body[k].data = doc[h].data]_vars

\* true when an object of v, v included, has no key
RECURSIVE HasEmptyObject(_)
HasEmptyObject(v) ==
    \/ v.kind = "object" /\ v.items = << >>
    \/ \E i \in 1..Len(v.items) : HasEmptyObject(v.items[i].v)

\* the same for the payloads in which no object is empty
C9_RoundTripOfFullObjects ==
    [][\A g \in DOMAIN pc :
         pc[g] = "finding" /\ resp'[g].status = 200
         => \A h \in DOMAIN pc :
               resp[h].status = 201
               => \E k \in 1..Len(resp'[g].body) :
                     /\ resp'[g].body[k].id = resp[h].id
                     /\ resp'[g].body[k].sessionId = doc[h].sessionId
                     /\ ~HasEmptyObject(doc[h].data)
                           => resp'[g].body[k].data = doc[h].data]_vars

----------------------------------------------------------------------------
(* C10 *)

\* the places (file, position) of the entries of the by-session export
Places ==
    { pl \in (1..Len(sessionFiles)) \X (1..Len(logs)) :
         pl[2] <= Len(sessionFiles[pl[1]].content) }

EntryAt(pl) == sessionFiles[pl[1]].content[pl[2]]

\* the place of the scan's record i: in the file named after its session, an
\* entry with its id, its data and its createdAt
PlacesOf(i) ==
    { pl \in Places :
         /\ sessionFiles[pl[1]].name = logs[i].sessionId
         /\ EntryAt(pl).id = jsonFile.content[i].id
         /\ EntryAt(pl).data = jsonFile.content[i].data
         /\ EntryAt(pl).createdAt = jsonFile.content[i].createdAt }

\* C10: after an export run that wrote its files, every record of the full
\* export is in exactly one session file, the one named after its sessionId;
\* no two files have the same name, none is empty; the files together hold
\* the records of the full export and nothing else; and the entries of a file
\* are in the order of the scan.
C10_GroupingCorrect ==
    jsonFile.written =>
      /\ Len(jsonFile.content) = Len(logs)
      /\ \A i \in 1..Len(logs) : Cardinality(PlacesOf(i)) = 1
      /\ \A f, g \in 1..Len(sessionFiles) :
            sessionFiles[f].name = sessionFiles[g].name => f = g
      /\ \A f \in 1..Len(sessionFiles) : Len(sessionFiles[f].content) >= 1
      /\ \A pl \in Places : \E i \in 1..Len(logs) : pl \in PlacesOf(i)
      /\ \A i, j \in 1..Len(logs) :
            \A pi \in PlacesOf(i), pj \in PlacesOf(j) :
               pi[1] = pj[1] /\ i < j => pi[2] < pj[2]

\* an export of three records in which the records of one session are
\* separated by a record of another
C10_Witness ==
    /\ jsonFile.written
    /\ Len(logs) = 3
    /\ Len(sessionFiles) = 2
    /\ logs[1].sessionId = logs[3].sessionId
    /\ logs[1].sessionId # logs[2].sessionId
    /\ Len(sessionFiles[1].content) = 2

----------------------------------------------------------------------------
(* C11 *)

NoArtifact ==
    /\ ~jsonFile.written
    /\ ~ndjsonFile.written
    /\ sessionFiles = << >>

AllArtifacts ==
    /\ jsonFile.written
    /\ ndjsonFile.written
    /\ sessionFiles # << >>

ExitStatusRight ==
    IF scriptPc = "exited"
    THEN /\ exitCode \in {0, 1}
         /\ exitCode = 0 <=> scriptError = ""
         /\ exitCode = 1 <=> scriptError \in {"connect", "find"}
         /\ exitCode = 0 /\ logs = << >> => NoArtifact
         /\ exitCode = 0 /\ logs # << >> => AllArtifacts
    ELSE exitCode = -1 /\ scriptError = ""

----------------------------------------------------------------------------
(* C12 *)

\* GET /export request g and the export script both scanned the collection as
\* it is now: documents are only ever added, so no insert lies between the two
\* scans
SameCollection(g) ==
    /\ ExportAnswered(g)
    /\ jsonFile.written
    /\ Len(resp[g].body) = Len(store)
    /\ Len(logs) = Len(store)

\* the entries a by-session export of the records of `body` holds for a session
GroupOf(body, name) ==
    LET mine == SelectSeq(body, LAMBDA e : e.sessionId = name)
    IN  [k \in 1..Len(mine) |->
            [id |-> mine[k].id, data |-> mine[k].data,
             createdAt |-> mine[k].createdAt]]

\* C12 as stated: two exports with no insert between them have identical
\* content: the same records in the same order with the same data, and the
\* same per-session groups.
C12_ExportIdempotent ==
    \A g \in DOMAIN pc :
        SameCollection(g) =>
          /\ resp[g].body = jsonFile.content
          /\ \A f \in 1..Len(sessionFiles) :
                sessionFiles[f].content = GroupOf(resp[g].body, sessionFiles[f].name)

Range(s) == { s[k] : k \in 1..Len(s) }

\* C12 amended: two exports with no insert between them hold the same records,
\* each once, with the same data, two records with different createdAt in the
\* same order, and per-session groups of the same records; the order of
\* records with equal createdAt may differ from one export to the other.
C12_ExportSameRecords ==
    \A g \in DOMAIN pc :
        SameCollection(g) =>
          /\ ListsExactly(resp[g].body, jsonFile.content)
          /\ \A i, j \in 1..Len(resp[g].body), k, l \in 1..Len(jsonFile.content) :
                /\ resp[g].body[i] = jsonFile.content[k]
                /\ resp[g].body[j] = jsonFile.content[l]
                /\ i < j
                /\ resp[g].body[i].createdAt # resp[g].body[j].createdAt
                => k < l
          /\ \A f \in 1..Len(sessionFiles) :
                Range(sessionFiles[f].content)
                   = Range(GroupOf(resp[g].body, sessionFiles[f].name))

\* two exports of the same two records, in different orders
C12_Witness ==
    \E g \in DOMAIN pc :
        /\ SameCollection(g)
        /\ Len(store) = 2
        /\ resp[g].body # jsonFile.content

----------------------------------------------------------------------------
(* C13 *)

ScannedTimes == { logs[i].createdAt : i \in 1..Len(logs) }
ScannedSessions == { logs[i].sessionId : i \in 1..Len(logs) }
Oldest == CHOOSE t \in ScannedTimes : \A u \in ScannedTimes : t <= u
Newest == CHOOSE t \in ScannedTimes : \A u \in ScannedTimes : t >= u

CountsRight ==
    /\ statistics.totalRecords = Len(logs)
    /\ statistics.uniqueSessions = Cardinality(ScannedSessions)

RangeRight ==
    IF logs = << >>
    THEN statistics.dateRange = << >>
    ELSE statistics.dateRange = << ToISOString(Oldest), ToISOString(Newest) >>

ScriptSucceeded == scriptPc = "exited" /\ exitCode = 0

\* C13 as stated: after a successful export the statistics are reported, with
\* totalRecords the number of scanned records, uniqueSessions the number of
\* their distinct sessionIds, and the date range from the least to the
\* greatest createdAt; the range is absent exactly when totalRecords is 0, and
\* then the statistics are still reported, with zero counts.
C13_StatisticsReported ==
    ScriptSucceeded =>
       /\ statistics.printed
       /\ CountsRight
       /\ RangeRight
       /\ statistics.dateRange = << >> <=> statistics.totalRecords = 0

\* C13 amended: the statistics are reported exactly when the scan returned at
\* least one record; then totalRecords is the number of scanned records,
\* uniqueSessions the number of their distinct sessionIds, and the date range
\* goes from the least to the greatest createdAt.  When the scan returns no
\* record, no statistics are reported at all.
C13_StatisticsOfNonEmptyScan ==
    ScriptSucceeded =>
       /\ statistics.printed <=> logs # << >>
       /\ statistics.printed =>
             /\ CountsRight
             /\ RangeRight
             /\ statistics.totalRecords >= 1
             /\ Len(statistics.dateRange) = 2
       /\ ~statistics.printed => statistics = NoStatistics

\* statistics of three records of two sessions, created at different times
C13_Witness ==
    /\ ScriptSucceeded
    /\ statistics.printed
    /\ statistics.totalRecords = 3
    /\ statistics.uniqueSessions = 2
    /\ statistics.dateRange[1] # statistics.dateRange[2]

----------------------------------------------------------------------------
(* C14 *)

ScriptAborted == scriptError \in {"connect", "find"}

\* C14: an export that meets a failure of the connection or of the scan gives
\* nothing.  The script then has written no file (no JSON array, no NDJSON, no
\* by-session file), has reported no statistics and ends with status 1; GET
\* /export is answered 200 with the records or 500 without any.
C14_ExportAbortsWhole ==
    /\ ScriptAborted =>
          /\ NoArtifact
          /\ jsonFile = NoFile /\ ndjsonFile = NoFile
          /\ ~statistics.printed
          /\ scriptPc = "exited" /\ exitCode = 1
    /\ \A h \in DOMAIN pc :
          resp[h].via = "export" =>
             /\ resp[h].status \in {200, 500}
             /\ resp[h].status = 500 => resp[h] = Reply(500, "export")

\* the scan of the script and the scan of a GET /export failed on a collection
\* that holds a record
C14_Witness ==
    /\ scriptError = "find"
    /\ store # << >>
    /\ \E h \in DOMAIN pc : resp[h] = Reply(500, "export")

----------------------------------------------------------------------------
(* C15 *)

IdsOfLogs     == { ObjectIdToString(logs[i]._id) : i \in 1..Len(logs) }
IdsOfJson     == { jsonFile.content[i].id : i \in 1..Len(jsonFile.content) }
IdsOfNdjson   == { ndjsonFile.content[i].line.id : i \in 1..Len(ndjsonFile.content) }
IdsOfSessions == { EntryAt(pl).id : pl \in Places }

\* the artifacts and the statistics describe the records of `logs`
OneSnapshot ==
    /\ IdsOfJson = IdsOfLogs
    /\ IdsOfNdjson = IdsOfLogs
    /\ IdsOfSessions = IdsOfLogs
    /\ Len(jsonFile.content) = Len(logs)
    /\ Len(ndjsonFile.content) = Len(logs)
    /\ Cardinality(Places) = Len(logs)
    /\ statistics.totalRecords = Len(logs)
    /\ \A i \in 1..Len(logs) : ndjsonFile.content[i].line = jsonFile.content[i]

\* C15: an export run scans the collection once.  The JSON array, the NDJSON
\* lines, the by-session files and the statistics all describe the records of
\* that one scan, which are the documents the collection held when the scan
\* was taken, whatever is inserted before or after it.
C15_OneScanPerExport ==
    /\ [](jsonFile.written \/ ndjsonFile.written \/ sessionFiles # << >>
             \/ statistics.printed
          => AllArtifacts /\ statistics.printed /\ OneSnapshot)
    /\ [][scriptPc = "connected" /\ exitCode' = 0
          => /\ ListsExactly(logs', store)
             /\ store' = store]_vars

\* the export describes two records and the collection has since received a
\* third
C15_Witness ==
    /\ jsonFile.written
    /\ OneSnapshot
    /\ Len(logs) = 2
    /\ Len(store) = 3

----------------------------------------------------------------------------
(* C16 *)

NothingHandled ==
    /\ \A h \in DOMAIN pc : pc[h] = "new" /\ req[h] = NoReq /\ resp[h] = NoResp
    /\ store = << >>

\* C16: the server listens only once the connect has succeeded: it starts to
\* listen in the step in which the connection becomes connected, and until
\* then no request is received or answered.  When the connect fails the
\* process exits with status 1, and it never listens afterwards.
C16_ListensAfterConnect ==
    /\ [](serverPc # "listening" => NothingHandled)
    /\ [](serverPc = "connecting" => readyState = 2 /\ serverExitCode = -1)
    /\ [](serverPc = "exited" => readyState = 0 /\ serverExitCode = 1)
    /\ [][ /\ serverPc # "listening" /\ serverPc' = "listening"
              => serverPc = "connecting" /\ readyState' = 1
           /\ serverPc = "exited" => serverPc' = "exited" ]_vars

\* the connect failed and the process exited without having listened
C16_Witness ==
    /\ serverPc = "exited"
    /\ serverExitCode = 1
    /\ NothingHandled

----------------------------------------------------------------------------
(* C17 *)

\* C17: a request with method OPTIONS, whatever its path and its body, is
\* answered 200 by the CORS middleware in the step that routes it: the body
\* parser, the POST-only gate, the identifier check and the handlers do not
\* run for it, no document is built and the collection is left as it is.
C17_OptionsAnsweredByCors ==
    /\ [](\A h \in DOMAIN pc :
             req[h].method = "OPTIONS" => pc[h] = "received")
    /\ [][\A h \in DOMAIN pc :
            RouteStep(h) /\ req[h].method = "OPTIONS"
            => /\ resp'[h] = Reply(200, "cors")
               /\ Untouched(h)
               /\ UNCHANGED <<readyState, now, serverPc>>]_vars

\* an OPTIONS request was answered by the CORS middleware while the collection
\* holds a record
C17_Witness ==
    /\ \E h \in DOMAIN pc : resp[h] = Reply(200, "cors")
    /\ store # << >>

====
